---- MODULE Spec2Model ----
(***************************************************************************)
(* TimerOS: the scheduling and execution core.                             *)
(*                                                                         *)
(*   app/core/scheduler.py        TaskScheduler (APScheduler job set)      *)
(*   app/core/executor.py         TaskExecutor.execute_task                *)
(*   app/services/task_service.py TaskService create/update/delete         *)
(*   app/api/routes/tasks.py      the manual execute route                 *)
(*   app/api/dependencies.py      execute_task_wrapper (scheduler callback)*)
(*   app/main.py                  lifespan (startup load, shutdown)        *)
(*   app/agents/task_agent.py     TaskAgent (the agent graph)              *)
(*   app/tools/langchain_tools.py the tools bound to the agent             *)
(*   app/core/task_parser.py      TaskParser.parse and its validation      *)
(*                                                                         *)
(* Spec      : the application (store, scheduler, services, runs).         *)
(* SpecSched : the TaskScheduler API called with arbitrary arguments.      *)
(* SpecExec  : TaskExecutor.execute_task called on arbitrary stores.       *)
(* SpecLoad  : process restarts (load_tasks_from_db) on arbitrary stores.  *)
(* SpecFire  : the scheduler firing the jobs loaded at startup.            *)
(* SpecCreate: POST /tasks with every outcome of the parser.               *)
(* SpecStored: execute_task on rows whose task_type is not a known one.    *)
(* SpecCrash : one execute_task call, the process may die at any step.     *)
(* SpecAgent : one TaskAgent.execute call through the agent graph.         *)
(* SpecValidate : TaskParser._validate_parse_result on arbitrary dicts.    *)
(* SpecParse : TaskParser.parse calls on one parser and its cache.         *)
(* SpecPreprocess : TaskParser._preprocess_description on arbitrary text.  *)
(* FairSpecAgent  : SpecAgent with the event loop's progress assumed.      *)
(***************************************************************************)
EXTENDS Integers, Sequences, FiniteSets, TLC

VARIABLES
    tasks,       \* the tasks table: row id = index (autoincrement primary key)
    executions,  \* the task_executions table: row id = index
    jobs,        \* the APScheduler job set of the process-wide TaskScheduler
    started,     \* TaskScheduler._started (the process is up)
    now,         \* the wall clock (datetime.utcnow / time.time)
    runs,        \* one entry per execute_task coroutine: position and locals
    last_call,   \* the latest TaskScheduler API call (SpecSched), the last
                 \* crash or load (SpecLoad), the pause request in force (Spec)
    agent,       \* one TaskAgent.execute call: graph position and history
    parser       \* one TaskParser: its cache, its calls of the language model

vars == <<tasks, executions, jobs, started, now, runs, last_call, agent, parser>>

----------------------------------------------------------------------------
(* Bounds of the model *)

MaxTasks == 1
MaxRuns == 2
MaxTime == 1
MaxSchedTasks == 2
MaxExecTasks == 1
MaxExecRuns == 2
MaxLoadTasks == 2
MaxFireTasks == 2
MaxCreateTasks == 3
MaxToolCalls == 2
MaxDescLen == 2
MaxPreLen == 5
\* the size the comment at TaskParser.__init__ gives for the cache is 1000
max_cache_entries == 1
\* the step budget of a graph run (LangGraph's default is 25)
recursion_limit == 4

TaskIds == 1..MaxTasks
SchedTaskIds == 1..MaxSchedTasks
RunIds == 1..MaxRuns
Times == 0..MaxTime
SchedTimes == {0, MaxTime}

----------------------------------------------------------------------------
(* Optional values: Python None / SQL NULL *)

None == <<>>
Some(v) == <<v>>

----------------------------------------------------------------------------
(* Cron expressions are strings of whitespace-separated fields; a string is
   modelled by the list of fields str.split() yields. *)

CronEveryMinute == <<"*", "*", "*", "*", "*">>
CronTooShort == <<"0", "8">>
CronBadField == <<"0", "8", "*", "*", "someday">>

CronFieldValues == {"*", "0", "1", "8"}

CronInputs == {None, Some(CronEveryMinute), Some(CronBadField)}

\* CronTrigger.from_crontab: five fields, each a valid field expression,
\* otherwise ValueError.
from_crontab(expr) ==
    IF Len(expr) # 5 \/ \E i \in 1..Len(expr) : expr[i] \notin CronFieldValues
    THEN [raised |-> "ValueError"]
    ELSE [raised |-> "",
          trigger |-> [kind |-> "cron", minute |-> expr[1], hour |-> expr[2],
                       day |-> expr[3], month |-> expr[4],
                       day_of_week |-> expr[5]]]

\* DateTrigger(run_date=schedule)
DateTrigger(schedule) == [kind |-> "date", run_date |-> schedule]

\* Python truthiness of an Optional[str]: None and "" are false.
Truthy(s) == s # None /\ Len(s[1]) > 0

\* f"task_{task_id}"
job_id(task_id) == <<"task_", task_id>>

JobFuncs == {"execute_task_wrapper", "other_callback"}

----------------------------------------------------------------------------
(* APScheduler: the job set.  A job is [id, trigger, func, args, paused];
   paused stands for next_run_time = None. *)

get_job(js, id) ==
    IF \E j \in js : j.id = id THEN Some(CHOOSE j \in js : j.id = id) ELSE None

\* a faulty add_job that keeps the older registration beside the new one
add_job_keeping_old(js, job) == js \cup {job}

\* scheduler.add_job(..., id=job_id, replace_existing=True)
add_job(js, job) == {j \in js : j.id # job.id} \cup {job}

\* scheduler.remove_job(job_id)
remove_job(js, id) == {j \in js : j.id # id}

\* an add_task that falls back to a one-shot registration when the cron
\* expression is rejected
add_task_lenient(js, task_id, schedule, cron_expression, is_recurring, job_func) ==
    [jobs |-> add_job(js, [id |-> job_id(task_id),
                           trigger |-> DateTrigger(schedule),
                           func |-> job_func,
                           args |-> <<task_id>>,
                           paused |-> FALSE]),
     ret |-> Some(job_id(task_id)),
     raised |-> ""]

\* TaskScheduler.add_task: the new job set, the value returned and the
\* exception raised ("" when none).
add_task(js, task_id, schedule, cron_expression, is_recurring, job_func) ==
    LET parsed == IF is_recurring /\ Truthy(cron_expression)
                  THEN from_crontab(cron_expression[1])
                  ELSE [raised |-> "", trigger |-> DateTrigger(schedule)]
    IN  IF parsed.raised # ""
        THEN [jobs |-> js, ret |-> None, raised |-> "SchedulerError"]
        ELSE [jobs |-> add_job(js, [id |-> job_id(task_id),
                                    trigger |-> parsed.trigger,
                                    func |-> job_func,
                                    args |-> <<task_id>>,
                                    paused |-> FALSE]),
              ret |-> Some(job_id(task_id)),
              raised |-> ""]

\* TaskScheduler.remove_task
remove_task(js, task_id) ==
    IF get_job(js, job_id(task_id)) # None
    THEN [jobs |-> remove_job(js, job_id(task_id)), ret |-> TRUE]
    ELSE [jobs |-> js, ret |-> FALSE]

\* a pause_task that drops the registration instead of suspending it
pause_task_dropping(js, task_id) ==
    IF get_job(js, job_id(task_id)) # None
    THEN [jobs |-> remove_job(js, job_id(task_id)), ret |-> TRUE]
    ELSE [jobs |-> js, ret |-> FALSE]

\* TaskScheduler.pause_task: job.pause()
pause_task(js, task_id) ==
    IF get_job(js, job_id(task_id)) # None
    THEN [jobs |-> {IF j.id = job_id(task_id) THEN [j EXCEPT !.paused = TRUE]
                    ELSE j : j \in js},
          ret |-> TRUE]
    ELSE [jobs |-> js, ret |-> FALSE]

\* TaskScheduler.resume_task: job.resume()
resume_task(js, task_id) ==
    IF get_job(js, job_id(task_id)) # None
    THEN [jobs |-> {IF j.id = job_id(task_id) THEN [j EXCEPT !.paused = FALSE]
                    ELSE j : j \in js},
          ret |-> TRUE]
    ELSE [jobs |-> js, ret |-> FALSE]

----------------------------------------------------------------------------
(* SpecSched: the TaskScheduler API driven with arbitrary arguments *)

NoCall == [op |-> "none"]

\* no TaskAgent.execute call was made
NoAgent == [node |-> "none"]

\* a TaskParser as __init__ leaves it: an empty cache, no call made
NoParser == [cache |-> {}, last |-> [op |-> "none"]]

\* a run slot no coroutine occupies
IdleRun ==
    [pc |-> "idle", task_id |-> 0, via |-> "", task |-> "unbound",
     exec_local |-> FALSE, exec_id |-> 0, start_time |-> <<>>,
     error |-> "", outcome |-> ""]

InitSched ==
    /\ tasks = <<>>
    /\ executions = <<>>
    /\ jobs = {}
    /\ started = TRUE
    /\ now = 0
    /\ runs = <<>>
    /\ last_call = NoCall
    /\ agent = NoAgent
    /\ parser = NoParser

SchedAddTask ==
    \E t \in SchedTaskIds, s \in SchedTimes, c \in CronInputs, rec \in BOOLEAN,
       f \in JobFuncs :
        LET res == add_task(jobs, t, s, c, rec, f)
        IN  /\ jobs' = res.jobs
            /\ last_call' = [op |-> "add_task", task_id |-> t, schedule |-> s,
                             cron_expression |-> c, is_recurring |-> rec,
                             job_func |-> f, raised |-> res.raised,
                             replaced |-> get_job(jobs, job_id(t)) # None]
            /\ UNCHANGED <<tasks, executions, started, now, runs>>
            /\ UNCHANGED <<agent, parser>>

SchedRemoveTask ==
    \E t \in SchedTaskIds :
        LET res == remove_task(jobs, t)
        IN  /\ jobs' = res.jobs
            /\ last_call' = [op |-> "remove_task", task_id |-> t,
                             ret |-> res.ret]
            /\ UNCHANGED <<tasks, executions, started, now, runs>>
            /\ UNCHANGED <<agent, parser>>

SchedPauseTask ==
    \E t \in SchedTaskIds :
        LET res == pause_task(jobs, t)
        IN  /\ jobs' = res.jobs
            /\ last_call' = [op |-> "pause_task", task_id |-> t,
                             ret |-> res.ret]
            /\ UNCHANGED <<tasks, executions, started, now, runs>>
            /\ UNCHANGED <<agent, parser>>

SchedResumeTask ==
    \E t \in SchedTaskIds :
        LET res == resume_task(jobs, t)
        IN  /\ jobs' = res.jobs
            /\ last_call' = [op |-> "resume_task", task_id |-> t,
                             ret |-> res.ret]
            /\ UNCHANGED <<tasks, executions, started, now, runs>>
            /\ UNCHANGED <<agent, parser>>

NextSched ==
    \/ SchedAddTask
    \/ SchedRemoveTask
    \/ SchedPauseTask
    \/ SchedResumeTask

SpecSched == InitSched /\ [][NextSched]_vars

----------------------------------------------------------------------------
(* The store: Task and TaskExecution rows.  The bookkeeping timestamps
   (created_time, updated_time, execution_time) and the free-text columns
   are left out. *)

KnownTaskTypes == {"research_task", "analysis_task", "report_task"}

\* What TaskParser.parse hands to create_task: one-shot tasks at any time,
\* recurring tasks with a valid, an invalid or no cron expression.
ParseResults ==
    {[task_type |-> "research_task", schedule |-> s, recurring |-> FALSE,
      cron_expression |-> None] : s \in Times}
    \cup
    {[task_type |-> "analysis_task", schedule |-> 0, recurring |-> TRUE,
      cron_expression |-> c] :
        c \in {Some(CronEveryMinute), Some(CronTooShort), None}}

\* Task(...) as create_task builds it
Task(parsed) ==
    [task_type |-> parsed.task_type,
     schedule |-> parsed.schedule,
     cron_expression |-> parsed.cron_expression,
     is_recurring |-> parsed.recurring,
     status |-> "pending",
     deleted_time |-> None]

\* an Execution row that is filed under the first task whatever task ran
TaskExecution_of_first_task(task_id) ==
    [task_id |-> 1,
     status |-> "running",
     result |-> None,
     error_message |-> None,
     duration_seconds |-> None]

\* TaskExecution(task_id=task_id, status="running", ...)
TaskExecution(task_id) ==
    [task_id |-> task_id,
     status |-> "running",
     result |-> None,
     error_message |-> None,
     duration_seconds |-> None]

\* TaskService.get_task: the row, unless absent or soft-deleted
get_task(ts, task_id) ==
    IF task_id \in DOMAIN ts /\ ts[task_id].deleted_time = None
    THEN Some(ts[task_id]) ELSE None

----------------------------------------------------------------------------
(* TaskScheduler.load_tasks_from_db *)

RECURSIVE load_from(_, _, _, _)
load_from(js, ts, clock, i) ==
    IF i > Len(ts) THEN [jobs |-> js, count |-> 0]
    ELSE LET task == ts[i]
             selected == task.status = "pending" /\ task.deleted_time = None
             expired == ~task.is_recurring /\ task.schedule < clock
             reg == add_task(js, i, task.schedule, task.cron_expression,
                             task.is_recurring, "execute_task_wrapper")
             loaded == selected /\ ~expired /\ reg.raised = ""
             rest == load_from(IF loaded THEN reg.jobs ELSE js, ts, clock,
                               i + 1)
         IN  [jobs |-> rest.jobs,
              count |-> rest.count + (IF loaded THEN 1 ELSE 0)]

\* a startup load that registers nothing
load_nothing(js, ts, clock) == [jobs |-> js, count |-> 0]

\* a startup load that gives up at the first task it cannot register
RECURSIVE load_until_failure(_, _, _, _)
load_until_failure(js, ts, clock, i) ==
    IF i > Len(ts) THEN [jobs |-> js, count |-> 0]
    ELSE LET task == ts[i]
             selected == task.status = "pending" /\ task.deleted_time = None
             expired == ~task.is_recurring /\ task.schedule < clock
             reg == add_task(js, i, task.schedule, task.cron_expression,
                             task.is_recurring, "execute_task_wrapper")
             loaded == selected /\ ~expired /\ reg.raised = ""
             rest == IF selected /\ ~expired /\ reg.raised # ""
                     THEN [jobs |-> js, count |-> 0]
                     ELSE load_until_failure(IF loaded THEN reg.jobs ELSE js,
                                             ts, clock, i + 1)
         IN  [jobs |-> rest.jobs,
              count |-> rest.count + (IF loaded THEN 1 ELSE 0)]

load_stopping_at_failure(js, ts, clock) == load_until_failure(js, ts, clock, 1)

load_tasks_from_db(js, ts, clock) == load_from(js, ts, clock, 1)

----------------------------------------------------------------------------
(* Runs: one execute_task coroutine each *)

NewRun(task_id, via) ==
    [pc |-> "load", task_id |-> task_id, via |-> via,
     task |-> "unbound",        \* the local `task`: unbound, none or row
     exec_local |-> FALSE,      \* "execution" in locals()
     exec_id |-> 0,             \* the run's TaskExecution row, 0 when none
     start_time |-> None,       \* the local `start_time`
     error |-> "",              \* str(e) of the exception caught at line 152
     outcome |-> ""]            \* "returned" or the exception that escaped

InFlight(r) == runs[r].pc \notin {"idle", "done", "killed"}

HasFreeRun == \E r \in DOMAIN runs : runs[r].pc = "idle"
FreeRun == CHOOSE r \in DOMAIN runs :
               runs[r].pc = "idle" /\ \A q \in 1..(r - 1) : runs[q].pc # "idle"

StartRun(task_id, via) ==
    runs' = [runs EXCEPT ![FreeRun] = NewRun(task_id, via)]

\* the run leaves execute_task, by a return or an escaping exception, and
\* its locals are gone
Leave(run, outcome) == [IdleRun EXCEPT !.pc = "done", !.outcome = outcome]

\* the try body raised: control moves to the except block at line 152
Caught(run, error) == [run EXCEPT !.pc = "except_execution", !.error = error]

----------------------------------------------------------------------------
(* TaskExecutor.execute_task, one step per commit.  A query or a commit may
   raise; a commit that raises rolls the session back, so nothing of it
   reaches the store. *)

\* lines 86-99: query the task, set status running, commit
RunLoad(r) ==
    /\ started
    /\ runs[r].pc = "load"
    /\ LET t == runs[r].task_id IN
        \/ \* the query raises
           /\ runs' = [runs EXCEPT ![r] = Caught(@, "db_error")]
           /\ UNCHANGED tasks
        \/ IF t \notin DOMAIN tasks
           THEN \* no row: TaskExecutionError raised at line 90
                /\ runs' = [runs EXCEPT ![r] =
                     Caught([@ EXCEPT !.task = "none"], "task_not_found")]
                /\ UNCHANGED tasks
           ELSE /\ tasks' = [tasks EXCEPT ![t].status = "running"]
                /\ runs' = [runs EXCEPT ![r] =
                     [@ EXCEPT !.pc = "create_execution", !.task = "row"]]
        \/ \* the commit raises
           /\ t \in DOMAIN tasks
           /\ runs' = [runs EXCEPT ![r] =
                         Caught([@ EXCEPT !.task = "row"], "db_error")]
           /\ UNCHANGED tasks
    /\ UNCHANGED <<executions, jobs, started, now, last_call>>
    /\ UNCHANGED <<agent, parser>>

\* lines 101-111: add the TaskExecution, commit, take start_time
RunCreateExecution(r) ==
    /\ started
    /\ runs[r].pc = "create_execution"
    /\ \/ /\ executions' = Append(executions, TaskExecution(runs[r].task_id))
          /\ runs' = [runs EXCEPT ![r] =
                        [@ EXCEPT !.pc = "handler", !.exec_local = TRUE,
                                  !.exec_id = Len(executions) + 1,
                                  !.start_time = Some(now)]]
       \/ \* the commit raises: the object stays local, start_time unbound
          /\ runs' = [runs EXCEPT ![r] =
                        Caught([@ EXCEPT !.exec_local = TRUE], "db_error")]
          /\ UNCHANGED executions
    /\ UNCHANGED <<tasks, jobs, started, now, last_call>>
    /\ UNCHANGED <<agent, parser>>

\* lines 127-129
completed_execution(execution, result, duration) ==
    [execution EXCEPT !.status = "completed",
                      !.result = Some(result),
                      !.duration_seconds = Some(duration)]

\* lines 113-130: the type handler, then the commit of status completed
RunHandler(r) ==
    /\ started
    /\ runs[r].pc = "handler"
    /\ LET t == runs[r].task_id
           e == runs[r].exec_id
           known == tasks[t].task_type \in KnownTaskTypes
       IN
        \/ \* the handler raises, or line 121 does for an unknown type
           /\ runs' = [runs EXCEPT ![r] =
                 Caught(@, IF known THEN "handler_error"
                                    ELSE "unknown_task_type")]
           /\ UNCHANGED executions
        \/ \* the handler returns and the commit succeeds
           /\ known
           /\ executions' = [executions EXCEPT ![e] =
                  completed_execution(@, "result_json",
                                      now - runs[r].start_time[1])]
           /\ runs' = [runs EXCEPT ![r].pc = "final_status"]
        \/ \* the handler returns and the commit raises
           /\ known
           /\ runs' = [runs EXCEPT ![r] = Caught(@, "db_error")]
           /\ UNCHANGED executions
    /\ UNCHANGED <<tasks, jobs, started, now, last_call>>
    /\ UNCHANGED <<agent, parser>>

\* a final status that forgets recurrence
final_status_always_completed(task) == "completed"

\* lines 132-138
final_status(task) == IF task.is_recurring THEN "pending" ELSE "completed"

\* lines 132-150: the Task's final status, commit, return
RunFinalStatus(r) ==
    /\ started
    /\ runs[r].pc = "final_status"
    /\ LET t == runs[r].task_id IN
        \/ /\ tasks' = [tasks EXCEPT ![t].status = final_status(tasks[t])]
           /\ runs' = [runs EXCEPT ![r] = Leave(@, "returned")]
        \/ \* the commit raises
           /\ runs' = [runs EXCEPT ![r] = Caught(@, "db_error")]
           /\ UNCHANGED tasks
    /\ UNCHANGED <<executions, jobs, started, now, last_call>>
    /\ UNCHANGED <<agent, parser>>

\* an except block that records the failure without its detail
failed_execution_without_message(execution, error, duration) ==
    [execution EXCEPT !.status = "failed",
                      !.duration_seconds = Some(duration)]

\* lines 163-165
failed_execution(execution, error, duration) ==
    [execution EXCEPT !.status = "failed",
                      !.error_message = Some(error),
                      !.duration_seconds = Some(duration)]

\* a scheduler that unschedules a job whose callback raised
callback_raised_dropping(js, task_id) == remove_job(js, job_id(task_id))

\* The exception execute_task_wrapper lets through reaches the scheduler's
\* executor, which logs it: the job set is as before.
callback_raised(js, task_id) == js

\* the job set after a step of run r: when the step lets an exception out of
\* a run the scheduler started, the scheduler sees its callback raise
JobsAfterRaise(r) ==
    IF runs'[r].pc = "done" /\ runs[r].via = "scheduler"
    THEN callback_raised(jobs, runs[r].task_id)
    ELSE jobs

\* lines 152-166: the except block marks the Execution failed
RunExceptExecution(r) ==
    /\ started
    /\ runs[r].pc = "except_execution"
    /\ LET e == runs[r].exec_id IN
        \/ IF ~runs[r].exec_local
           THEN \* no `execution` local
                /\ runs' = [runs EXCEPT ![r].pc = "except_task"]
                /\ UNCHANGED executions
           ELSE IF runs[r].start_time = None
           THEN \* line 165 reads start_time before its assignment
                /\ runs' = [runs EXCEPT ![r] = Leave(@, "UnboundLocalError")]
                /\ UNCHANGED executions
           ELSE /\ executions' = [executions EXCEPT ![e] =
                      failed_execution(@, runs[r].error,
                                       now - runs[r].start_time[1])]
                /\ runs' = [runs EXCEPT ![r].pc = "except_task"]
        \/ \* the commit raises inside the except block
           /\ runs[r].exec_local
           /\ runs[r].start_time # None
           /\ runs' = [runs EXCEPT ![r] = Leave(@, "SQLAlchemyError")]
           /\ UNCHANGED executions
    /\ jobs' = JobsAfterRaise(r)
    /\ UNCHANGED <<tasks, started, now, last_call>>
    /\ UNCHANGED <<agent, parser>>

\* lines 168-173: the except block marks the Task failed and raises
RunExceptTask(r) ==
    /\ started
    /\ runs[r].pc = "except_task"
    /\ LET t == runs[r].task_id IN
        \/ CASE runs[r].task = "unbound" ->
                \* no `task` local
                /\ runs' = [runs EXCEPT ![r] = Leave(@, "TaskExecutionError")]
                /\ UNCHANGED tasks
             [] runs[r].task = "none" ->
                \* task is None: the assignment to task.status raises
                /\ runs' = [runs EXCEPT ![r] = Leave(@, "AttributeError")]
                /\ UNCHANGED tasks
             [] runs[r].task = "row" ->
                /\ tasks' = [tasks EXCEPT ![t].status = "failed"]
                /\ runs' = [runs EXCEPT ![r] = Leave(@, "TaskExecutionError")]
        \/ \* the commit raises inside the except block
           /\ runs[r].task = "row"
           /\ runs' = [runs EXCEPT ![r] = Leave(@, "SQLAlchemyError")]
           /\ UNCHANGED tasks
    /\ jobs' = JobsAfterRaise(r)
    /\ UNCHANGED <<executions, started, now, last_call>>
    /\ UNCHANGED <<agent, parser>>

Tick ==
    /\ now < MaxTime
    /\ now' = now + 1
    /\ UNCHANGED <<tasks, executions, jobs, started, runs, last_call>>
    /\ UNCHANGED <<agent, parser>>

----------------------------------------------------------------------------
(* SpecExec: TaskExecutor.execute_task called with arbitrary task ids on a
   store of one-shot and recurring tasks; the clock stands still. *)

\* the rows create_task can have stored: one-shot or recurring, pending
ExecRows ==
    {[task_type |-> "research_task",
      schedule |-> 0,
      cron_expression |-> IF rec THEN Some(CronEveryMinute) ELSE None,
      is_recurring |-> rec,
      status |-> "pending",
      deleted_time |-> None] : rec \in BOOLEAN}

InitExec ==
    /\ tasks \in [1..MaxExecTasks -> ExecRows]
    /\ executions = <<>>
    /\ jobs = {}
    /\ started = TRUE
    /\ now = 0
    /\ runs = [r \in 1..MaxExecRuns |-> IdleRun]
    /\ last_call = NoCall
    /\ agent = NoAgent
    /\ parser = NoParser

\* execute_task(task_id) for an id with or without a row
ExecCall ==
    /\ HasFreeRun
    /\ \E t \in 1..(MaxExecTasks + 1) : StartRun(t, "direct")
    /\ UNCHANGED <<tasks, executions, jobs, started, now, last_call>>
    /\ UNCHANGED <<agent, parser>>

NextExec ==
    \/ ExecCall
    \/ \E r \in DOMAIN runs : RunLoad(r)
    \/ \E r \in DOMAIN runs : RunCreateExecution(r)
    \/ \E r \in DOMAIN runs : RunHandler(r)
    \/ \E r \in DOMAIN runs : RunFinalStatus(r)
    \/ \E r \in DOMAIN runs : RunExceptExecution(r)
    \/ \E r \in DOMAIN runs : RunExceptTask(r)

SpecExec == InitExec /\ [][NextExec]_vars

----------------------------------------------------------------------------
(* SpecStored: execute_task on a store that also holds a row written past
   create_task: task_type is a free String(50) column, and only the
   parser's validation narrows it to the known types. *)

StoredRows ==
    {[task_type |-> ty,
      schedule |-> 0,
      cron_expression |-> None,
      is_recurring |-> FALSE,
      status |-> "pending",
      deleted_time |-> None] : ty \in {"research_task", "custom_task"}}

InitStored ==
    /\ tasks \in [1..MaxExecTasks -> StoredRows]
    /\ executions = <<>>
    /\ jobs = {}
    /\ started = TRUE
    /\ now = 0
    /\ runs = [r \in 1..MaxExecRuns |-> IdleRun]
    /\ last_call = NoCall
    /\ agent = NoAgent
    /\ parser = NoParser

NextStored ==
    \/ ExecCall
    \/ \E r \in DOMAIN runs : RunLoad(r)
    \/ \E r \in DOMAIN runs : RunCreateExecution(r)
    \/ \E r \in DOMAIN runs : RunHandler(r)
    \/ \E r \in DOMAIN runs : RunFinalStatus(r)
    \/ \E r \in DOMAIN runs : RunExceptExecution(r)
    \/ \E r \in DOMAIN runs : RunExceptTask(r)

SpecStored == InitStored /\ [][NextStored]_vars

----------------------------------------------------------------------------
(* SpecLoad: the process is restarted on a store of tasks in any state the
   services and runs can leave them in. *)

\* rows of the store: one-shot at any time, recurring with a valid, an
\* invalid or no cron expression; pending, paused or failed; deleted or not
LoadRows ==
    {[task_type |-> IF p.recurring THEN "analysis_task" ELSE "research_task",
      schedule |-> p.schedule,
      cron_expression |-> p.cron_expression,
      is_recurring |-> p.recurring,
      status |-> st,
      deleted_time |-> del] :
        p \in ParseResults, st \in {"pending", "paused", "failed"},
        del \in {None, Some(0)}}

\* the registrations the running process holds for a store: the one
\* create_task made for each row by add_task, unless add_task raised, the
\* task was deleted or its date job is gone; paused with the task
RECURSIVE created_from(_, _, _)
created_from(js, ts, i) ==
    IF i > Len(ts) THEN js
    ELSE LET task == ts[i]
             reg == add_task(js, i, task.schedule, task.cron_expression,
                             task.is_recurring, "execute_task_wrapper")
             kept == /\ reg.raised = ""
                     /\ task.deleted_time = None
                     /\ task.is_recurring /\ Truthy(task.cron_expression)
             js1 == IF ~kept THEN js
                    ELSE IF task.status = "paused"
                         THEN pause_task(reg.jobs, i).jobs
                         ELSE reg.jobs
         IN  created_from(js1, ts, i + 1)

InitLoad ==
    /\ tasks \in [1..MaxLoadTasks -> LoadRows]
    /\ executions = <<>>
    /\ jobs = created_from({}, tasks, 1)
    /\ started = TRUE
    /\ now = 0
    /\ runs = <<>>
    /\ last_call = NoCall
    /\ agent = NoAgent
    /\ parser = NoParser

\* the process dies; last_call remembers the registrations that are lost
LoadCrash ==
    /\ started
    /\ started' = FALSE
    /\ jobs' = {}
    /\ last_call' = [op |-> "crash", discarded |-> jobs]
    /\ UNCHANGED <<tasks, executions, now, runs>>
    /\ UNCHANGED <<agent, parser>>

\* lifespan startup; last_call keeps the count load_tasks_from_db returned
LoadStartup ==
    /\ ~started
    /\ started' = TRUE
    /\ LET res == load_tasks_from_db({}, tasks, now)
       IN  /\ jobs' = res.jobs
           /\ last_call' = [op |-> "load_tasks_from_db", count |-> res.count,
                            at |-> now, discarded |-> last_call.discarded]
    /\ UNCHANGED <<tasks, executions, now, runs>>
    /\ UNCHANGED <<agent, parser>>

NextLoad ==
    \/ LoadCrash
    \/ LoadStartup
    \/ Tick

SpecLoad == InitLoad /\ [][NextLoad]_vars

----------------------------------------------------------------------------
(* Spec: the application *)

Init ==
    /\ tasks = <<>>
    /\ executions = <<>>
    /\ jobs = {}
    /\ started = FALSE
    /\ now = 0
    /\ runs = [r \in RunIds |-> IdleRun]
    /\ last_call = NoCall
    /\ agent = NoAgent
    /\ parser = NoParser

\* lifespan startup: scheduler.start(), then load_tasks_from_db
Startup ==
    /\ ~started
    /\ started' = TRUE
    /\ jobs' = load_tasks_from_db({}, tasks, now).jobs
    /\ UNCHANGED <<tasks, executions, now, runs, last_call>>
    /\ UNCHANGED <<agent, parser>>

\* the process dies: the in-memory scheduler and the coroutines are lost
Crash ==
    /\ started
    /\ started' = FALSE
    /\ jobs' = {}
    /\ runs' = [r \in DOMAIN runs |->
                   IF InFlight(r) THEN [IdleRun EXCEPT !.pc = "killed"]
                   ELSE runs[r]]
    /\ UNCHANGED <<tasks, executions, now, last_call>>
    /\ UNCHANGED <<agent, parser>>

\* lifespan shutdown: the requests in flight have been served, then
\* TaskScheduler.shutdown.  The executor of an AsyncIOScheduler cannot wait
\* inside the event loop: it cancels the callbacks in flight, and the
\* CancelledError passes the `except Exception` of execute_task.  The
\* process exits, the in-memory job set is gone.
Shutdown ==
    /\ started
    /\ \A r \in DOMAIN runs : InFlight(r) => runs[r].via = "scheduler"
    /\ started' = FALSE
    /\ jobs' = {}
    /\ runs' = [r \in DOMAIN runs |->
                   IF InFlight(r) THEN Leave(runs[r], "CancelledError")
                   ELSE runs[r]]
    /\ UNCHANGED <<tasks, executions, now, last_call>>
    /\ UNCHANGED <<agent, parser>>

\* What TaskParser.parse does with a description: it returns a validated
\* result, or raises ValueError (empty description) or TaskParseError
ParseFailures == {"TaskParseError", "ValueError"}

ParseOutcomes ==
    {[raised |-> "", parsed |-> Some(p)] : p \in ParseResults}
    \cup {[raised |-> e, parsed |-> None] : e \in ParseFailures}

\* a create_task that stores a placeholder task when the parser fails
create_task_with_placeholder(ts, js, outcome) ==
    LET parsed == IF outcome.raised # ""
                  THEN [task_type |-> "research_task", schedule |-> 0,
                        recurring |-> FALSE, cron_expression |-> None]
                  ELSE outcome.parsed[1]
        task == Task(parsed)
        id == Len(ts) + 1
        reg == add_task(js, id, task.schedule, task.cron_expression,
                        task.is_recurring, "execute_task_wrapper")
    IN  [tasks |-> Append(ts, task), jobs |-> reg.jobs,
         ret |-> IF reg.raised = "" THEN Some(id) ELSE None,
         raised |-> reg.raised]

\* TaskService.create_task: a failure of the parser is re-raised before
\* anything is stored; a SchedulerError of add_task is re-raised after the
\* row was committed
create_task(ts, js, outcome) ==
    IF outcome.raised # ""
    THEN [tasks |-> ts, jobs |-> js, ret |-> None, raised |-> outcome.raised]
    ELSE LET task == Task(outcome.parsed[1])
             id == Len(ts) + 1
             reg == add_task(js, id, task.schedule, task.cron_expression,
                             task.is_recurring, "execute_task_wrapper")
         IN  [tasks |-> Append(ts, task), jobs |-> reg.jobs,
              ret |-> IF reg.raised = "" THEN Some(id) ELSE None,
              raised |-> reg.raised]

\* POST /tasks
CreateTask ==
    /\ started
    /\ Len(tasks) < MaxTasks
    /\ \E outcome \in ParseOutcomes :
        LET res == create_task(tasks, jobs, outcome)
        IN  /\ tasks' = res.tasks
            /\ jobs' = res.jobs
    /\ UNCHANGED <<executions, started, now, runs, last_call>>
    /\ UNCHANGED <<agent, parser>>

\* the status values a PUT /tasks/{id} body may carry (any string)
UpdateStatuses == {"pending", "paused", "archived"}

\* TaskService.update_task(status=...)
update_task(ts, js, task_id, status) ==
    IF get_task(ts, task_id) = None
    THEN [tasks |-> ts, jobs |-> js, ret |-> None]
    ELSE [tasks |-> [ts EXCEPT ![task_id].status = status],
          jobs |-> IF status = "paused" THEN pause_task(js, task_id).jobs
                   ELSE IF status = "pending"
                        THEN resume_task(js, task_id).jobs
                        ELSE js,
          ret |-> Some(task_id)]

\* PUT /tasks/{id}; last_call keeps the pause request that is in force: it
\* is set by a status=paused update and cleared by the task's next update
UpdateTask ==
    /\ started
    /\ \E t \in TaskIds, status \in UpdateStatuses :
        LET res == update_task(tasks, jobs, t, status)
        IN  /\ tasks' = res.tasks
            /\ jobs' = res.jobs
            /\ last_call' =
                  IF res.ret = None THEN last_call
                  ELSE IF status = "paused"
                       THEN [op |-> "update_task", task_id |-> t,
                             status |-> status]
                       ELSE IF last_call.op = "update_task"
                               /\ last_call.task_id = t
                            THEN NoCall
                            ELSE last_call
    /\ UNCHANGED <<executions, started, now, runs>>
    /\ UNCHANGED <<agent, parser>>

\* a delete_task that forgets the scheduler
delete_task_without_remove(ts, js, task_id, clock) ==
    IF get_task(ts, task_id) = None
    THEN [tasks |-> ts, jobs |-> js, ret |-> FALSE]
    ELSE [tasks |-> [ts EXCEPT ![task_id].deleted_time = Some(clock),
                               ![task_id].status = "paused"],
          jobs |-> js,
          ret |-> TRUE]

\* TaskService.delete_task
delete_task(ts, js, task_id, clock) ==
    IF get_task(ts, task_id) = None
    THEN [tasks |-> ts, jobs |-> js, ret |-> FALSE]
    ELSE [tasks |-> [ts EXCEPT ![task_id].deleted_time = Some(clock),
                               ![task_id].status = "paused"],
          jobs |-> remove_task(js, task_id).jobs,
          ret |-> TRUE]

DeleteTask ==
    /\ started
    /\ \E t \in TaskIds :
        LET res == delete_task(tasks, jobs, t, now)
        IN  /\ tasks' = res.tasks
            /\ jobs' = res.jobs
    /\ UNCHANGED <<executions, started, now, runs, last_call>>
    /\ UNCHANGED <<agent, parser>>

\* TaskService.delete_task on a one-shot task whose date job the scheduler
\* fires between remove_task's get_job and remove_job: the firing starts
\* the run and drops the job, remove_job raises JobLookupError and
\* remove_task raises SchedulerError after the soft delete was committed.
DeleteTaskDuringFire ==
    /\ started
    /\ HasFreeRun
    /\ \E t \in TaskIds :
        /\ get_task(tasks, t) # None
        /\ \E j \in jobs :
            /\ j.id = job_id(t)
            /\ ~j.paused
            /\ j.trigger.kind = "date"
            /\ j.trigger.run_date = now
            /\ jobs' = remove_job(jobs, j.id)
        /\ tasks' = [tasks EXCEPT ![t].deleted_time = Some(now),
                                  ![t].status = "paused"]
        /\ StartRun(t, "scheduler")
    /\ UNCHANGED <<executions, started, now, last_call>>
    /\ UNCHANGED <<agent, parser>>

\* The scheduler fires a cron job: execute_task_wrapper(task_id) starts,
\* unless an instance of the job is still running (max_instances = 1).
FireCron ==
    /\ started
    /\ HasFreeRun
    /\ \E j \in jobs :
        /\ ~j.paused
        /\ j.trigger.kind = "cron"
        /\ j.func = "execute_task_wrapper"
        /\ ~\E r \in DOMAIN runs : /\ InFlight(r)
                                   /\ runs[r].via = "scheduler"
                                   /\ runs[r].task_id = j.args[1]
        /\ StartRun(j.args[1], "scheduler")
    /\ UNCHANGED <<tasks, executions, jobs, started, now, last_call>>
    /\ UNCHANGED <<agent, parser>>

\* The scheduler fires a date job at its run date and drops it.
FireDate ==
    /\ started
    /\ HasFreeRun
    /\ \E j \in jobs :
        /\ ~j.paused
        /\ j.trigger.kind = "date"
        /\ j.trigger.run_date = now
        /\ j.func = "execute_task_wrapper"
        /\ jobs' = remove_job(jobs, j.id)
        /\ StartRun(j.args[1], "scheduler")
    /\ UNCHANGED <<tasks, executions, started, now, last_call>>
    /\ UNCHANGED <<agent, parser>>

\* A date job found later than its run date plus the grace time is a
\* misfire: dropped without being run.
MisfireDate ==
    /\ started
    /\ \E j \in jobs :
        /\ ~j.paused
        /\ j.trigger.kind = "date"
        /\ j.trigger.run_date < now
        /\ jobs' = remove_job(jobs, j.id)
    /\ UNCHANGED <<tasks, executions, started, now, runs, last_call>>
    /\ UNCHANGED <<agent, parser>>

\* a manual execute that is refused while a run of the task is in flight
ManualExecute_exclusive ==
    /\ started
    /\ HasFreeRun
    /\ \E t \in TaskIds :
        /\ get_task(tasks, t) # None
        /\ ~\E r \in DOMAIN runs : InFlight(r) /\ runs[r].task_id = t
        /\ StartRun(t, "manual")
    /\ UNCHANGED <<tasks, executions, jobs, started, now, last_call>>
    /\ UNCHANGED <<agent, parser>>

\* POST /tasks/{id}/execute: 404 unless get_task finds the task
ManualExecute ==
    /\ started
    /\ HasFreeRun
    /\ \E t \in TaskIds :
        /\ get_task(tasks, t) # None
        /\ StartRun(t, "manual")
    /\ UNCHANGED <<tasks, executions, jobs, started, now, last_call>>
    /\ UNCHANGED <<agent, parser>>

Next ==
    \/ Startup
    \/ Crash
    \/ Shutdown
    \/ Tick
    \/ CreateTask
    \/ UpdateTask
    \/ DeleteTask
    \/ DeleteTaskDuringFire
    \/ FireCron
    \/ FireDate
    \/ MisfireDate
    \/ ManualExecute
    \/ \E r \in DOMAIN runs : RunLoad(r)
    \/ \E r \in DOMAIN runs : RunCreateExecution(r)
    \/ \E r \in DOMAIN runs : RunHandler(r)
    \/ \E r \in DOMAIN runs : RunFinalStatus(r)
    \/ \E r \in DOMAIN runs : RunExceptExecution(r)
    \/ \E r \in DOMAIN runs : RunExceptTask(r)

Spec == Init /\ [][Next]_vars

----------------------------------------------------------------------------
(* SpecCrash: one call of execute_task on a store of pending tasks, and the
   process may die between any two of its commits.  The store is what a
   restart finds. *)

InitCrash ==
    /\ tasks \in [1..MaxExecTasks -> ExecRows]
    /\ executions = <<>>
    /\ jobs = {}
    /\ started = TRUE
    /\ now = 0
    /\ runs = <<IdleRun>>
    /\ last_call = NoCall
    /\ agent = NoAgent
    /\ parser = NoParser

NextCrash ==
    \/ ExecCall
    \/ \E r \in DOMAIN runs : RunLoad(r)
    \/ \E r \in DOMAIN runs : RunCreateExecution(r)
    \/ \E r \in DOMAIN runs : RunHandler(r)
    \/ \E r \in DOMAIN runs : RunFinalStatus(r)
    \/ \E r \in DOMAIN runs : RunExceptExecution(r)
    \/ \E r \in DOMAIN runs : RunExceptTask(r)
    \/ Crash

SpecCrash == InitCrash /\ [][NextCrash]_vars

----------------------------------------------------------------------------
(* SpecFire: the process has just started on a store of pending tasks; the
   scheduler fires the loaded jobs and nothing else starts a run; the clock
   stands still. *)

InitFire ==
    /\ tasks \in [1..MaxFireTasks -> ExecRows]
    /\ executions = <<>>
    /\ now = 0
    /\ jobs = load_tasks_from_db({}, tasks, now).jobs
    /\ started = TRUE
    /\ runs = [r \in 1..MaxExecRuns |-> IdleRun]
    /\ last_call = NoCall
    /\ agent = NoAgent
    /\ parser = NoParser

NextFire ==
    \/ FireCron
    \/ FireDate
    \/ \E r \in DOMAIN runs : RunLoad(r)
    \/ \E r \in DOMAIN runs : RunCreateExecution(r)
    \/ \E r \in DOMAIN runs : RunHandler(r)
    \/ \E r \in DOMAIN runs : RunFinalStatus(r)
    \/ \E r \in DOMAIN runs : RunExceptExecution(r)
    \/ \E r \in DOMAIN runs : RunExceptTask(r)

SpecFire == InitFire /\ [][NextFire]_vars

----------------------------------------------------------------------------
(* SpecCreate: POST /tasks calls on an empty store; last_call keeps what
   the parser did and what the caller got. *)

InitCreate ==
    /\ tasks = <<>>
    /\ executions = <<>>
    /\ jobs = {}
    /\ started = TRUE
    /\ now = 0
    /\ runs = <<>>
    /\ last_call = NoCall
    /\ agent = NoAgent
    /\ parser = NoParser

CreateCall ==
    /\ Len(tasks) < MaxCreateTasks
    /\ \E outcome \in ParseOutcomes :
        LET res == create_task(tasks, jobs, outcome)
        IN  /\ tasks' = res.tasks
            /\ jobs' = res.jobs
            /\ last_call' = [op |-> "create_task", outcome |-> outcome,
                             ret |-> res.ret, raised |-> res.raised]
    /\ UNCHANGED <<executions, started, now, runs>>
    /\ UNCHANGED <<agent, parser>>

NextCreate == CreateCall

SpecCreate == InitCreate /\ [][NextCreate]_vars

----------------------------------------------------------------------------
(* SpecAgent: one TaskAgent.execute call.  The graph is START -> agent,
   agent -> tools or END by _should_continue, tools -> agent.  The language
   model and the capabilities behind the tools are the inputs.  The graph
   runtime and ToolNode are LangGraph's: the runtime stops a run that has
   not ended after recursion_limit steps with GraphRecursionError; ToolNode
   answers a call of a tool it does not hold with an error message; what
   it does with an exception a tool raises depends on the release (the
   former default turns it into an error message, the later one re-raises
   it), so both are possible. *)

\* get_all_tools()
get_all_tools ==
    {"web_search", "search_news", "send_email", "send_task_result_email",
     "create_notion_page", "update_notion_page", "analyze_data",
     "generate_data_summary"}

\* the tools whose function awaits WebSearchTool.search without a try block
SearchTools == {"web_search", "search_news"}

\* the tool names a model response asks for in this model: one of each
\* kind, and one that no tool set holds
RequestedTools == {"web_search", "send_email", "no_such_tool"}

\* what the capability behind a tool does during one invocation
CapabilityOutcomes(name) ==
    IF name \in SearchTools THEN {"ok", "http_error", "error"}
    ELSE {"ok", "error"}

\* one tool function of langchain_tools.py: the text it returns or the
\* exception that leaves it.  WebSearchTool.search falls back to an empty
\* result on httpx.HTTPError and raises TaskExecutionError on anything
\* else; the other tools catch every Exception and return a failure text.
invoke_tool(name, outcome) ==
    IF name \in SearchTools
    THEN CASE outcome = "ok" -> [raised |-> "", content |-> "results"]
           [] outcome = "http_error" ->
                 [raised |-> "", content |-> "no results found"]
           [] OTHER -> [raised |-> "search failed", content |-> ""]
    ELSE IF outcome = "ok"
         THEN [raised |-> "", content |-> "success"]
         ELSE [raised |-> "", content |-> "failure: capability error"]

HumanMessage == [type |-> "human", content |-> "task", tool_calls |-> <<>>]

AIMessage(content, tool_calls) ==
    [type |-> "ai", content |-> content, tool_calls |-> tool_calls]

ToolMessage(name, content, status) ==
    [type |-> "tool", name |-> name, content |-> content, status |-> status]

\* the tool_calls of a response: up to MaxToolCalls names
ToolCalls ==
    UNION {[1..n -> RequestedTools] : n \in 1..MaxToolCalls}

\* llm_with_tools.ainvoke: a final answer or a request for tools
ModelResponses ==
    {AIMessage("answer", <<>>)} \cup {AIMessage("", c) : c \in ToolCalls}

\* the message of the exception a failing model call raises
ModelFailures == {"model unavailable"}

\* TaskAgent._should_continue
should_continue_always(messages) == "continue"

should_continue(messages) ==
    LET last_message == messages[Len(messages)]
    IN  IF last_message.type = "ai" /\ last_message.tool_calls # <<>>
        THEN "continue" ELSE "end"

\* the conditional edge of _build_graph
EdgeOf(route) == IF route = "continue" THEN "tools" ELSE "END"

\* ToolNode on one tool call, given what the capability does
run_one(tools, handle_tool_errors, name, outcome) ==
    IF name \notin tools
    THEN [raised |-> "",
          message |-> ToolMessage(name, "not a valid tool", "error")]
    ELSE LET res == invoke_tool(name, outcome)
         IN  IF res.raised = ""
             THEN [raised |-> "",
                   message |-> ToolMessage(name, res.content, "success")]
             ELSE IF handle_tool_errors
                  THEN [raised |-> "",
                        message |-> ToolMessage(name, res.raised, "error")]
                  ELSE [raised |-> res.raised, message |-> None]

\* the result dictionary of TaskAgent.execute
execute_result_hiding_cause(a) ==
    IF a.raised # None
    THEN [success |-> FALSE, error |-> <<"task execution failed: ">>]
    ELSE [success |-> TRUE,
          final_response |-> a.messages[Len(a.messages)].content,
          message_count |-> Len(a.messages)]

execute_result(a) ==
    IF a.raised # None
    THEN [success |-> FALSE,
          error |-> <<"task execution failed: ", a.raised[1]>>]
    ELSE [success |-> TRUE,
          final_response |-> a.messages[Len(a.messages)].content,
          message_count |-> Len(a.messages)]

\* TaskAgent.execute has called graph.ainvoke(initial_state)
InitAgent ==
    /\ tasks = <<>>
    /\ executions = <<>>
    /\ jobs = {}
    /\ started = TRUE
    /\ now = 0
    /\ runs = <<>>
    /\ last_call = NoCall
    /\ parser = NoParser
    /\ \E h \in BOOLEAN :
          agent = [node |-> "agent",
                   tools |-> get_all_tools,
                   handle_tool_errors |-> h,
                   messages |-> <<HumanMessage>>,
                   step |-> 0,
                   raised |-> None,
                   result |-> None]

\* the graph is still running
Looping == agent.node \in {"agent", "tools"} /\ agent.raised = None

\* a runtime that ends the graph quietly when the step budget is spent
GraphRecursionError_ends_quietly ==
    /\ Looping
    /\ agent.step >= recursion_limit
    /\ agent' = [agent EXCEPT !.node = "END"]
    /\ UNCHANGED <<tasks, executions, jobs, started, now, runs, last_call>>
    /\ UNCHANGED parser

\* the runtime gives up: the step budget is spent and a node is due
GraphRecursionError ==
    /\ Looping
    /\ agent.step >= recursion_limit
    /\ agent' = [agent EXCEPT !.raised = Some("recursion limit reached")]
    /\ UNCHANGED <<tasks, executions, jobs, started, now, runs, last_call>>
    /\ UNCHANGED parser

\* the agent node: TaskAgent._agent_node, then the conditional edge
AgentNode ==
    /\ Looping
    /\ agent.node = "agent"
    /\ agent.step < recursion_limit
    /\ \/ \E e \in ModelFailures :
             agent' = [agent EXCEPT !.raised = Some(e)]
       \/ \E response \in ModelResponses :
             LET messages == Append(agent.messages, response)
             IN  agent' = [agent EXCEPT
                             !.messages = messages,
                             !.step = @ + 1,
                             !.node = EdgeOf(should_continue(messages))]
    /\ UNCHANGED <<tasks, executions, jobs, started, now, runs, last_call>>
    /\ UNCHANGED parser

\* the tools node: ToolNode on every tool call of the last response, the
\* results appended in the order of the calls; then the edge tools -> agent
ToolsNode ==
    /\ Looping
    /\ agent.node = "tools"
    /\ agent.step < recursion_limit
    /\ LET calls == agent.messages[Len(agent.messages)].tool_calls
       IN  \E out \in [DOMAIN calls ->
                         UNION {CapabilityOutcomes(n) : n \in RequestedTools}] :
             /\ \A i \in DOMAIN calls : out[i] \in CapabilityOutcomes(calls[i])
             /\ LET res == [i \in DOMAIN calls |->
                              run_one(agent.tools, agent.handle_tool_errors,
                                      calls[i], out[i])]
                    failed == {i \in DOMAIN calls : res[i].raised # ""}
                IN  IF failed # {}
                    THEN \E i \in failed :
                           agent' = [agent EXCEPT
                                       !.raised = Some(res[i].raised)]
                    ELSE agent' = [agent EXCEPT
                                     !.messages = @ \o
                                        [i \in DOMAIN calls |-> res[i].message],
                                     !.step = @ + 1,
                                     !.node = "agent"]
    /\ UNCHANGED <<tasks, executions, jobs, started, now, runs, last_call>>
    /\ UNCHANGED parser

\* TaskAgent.execute returns: the try body after graph.ainvoke, or the
\* except block
ExecuteReturn ==
    /\ agent.node # "none"
    /\ agent.result = None
    /\ agent.node = "END" \/ agent.raised # None
    /\ agent' = [agent EXCEPT !.result = Some(execute_result(agent))]
    /\ UNCHANGED <<tasks, executions, jobs, started, now, runs, last_call>>
    /\ UNCHANGED parser

NextAgent ==
    \/ AgentNode
    \/ ToolsNode
    \/ GraphRecursionError
    \/ ExecuteReturn

SpecAgent == InitAgent /\ [][NextAgent]_vars

\* execute is a coroutine the event loop keeps running: every await of the
\* model or of a tool comes back, with a value or with an exception
FairSpecAgent == SpecAgent /\ WF_vars(NextAgent)

----------------------------------------------------------------------------
(* TaskParser.  A description is a string over a small alphabet; a parse
   result is a dictionary, a function from the keys it has to values.
   Values are kept as text: "true" / "false" for booleans, "{}" for the
   empty dictionary, "null" for None. *)

DescriptionChars == {" ", "a", "b"}

Descriptions == UNION {[1..n -> DescriptionChars] : n \in 0..MaxDescLen}

\* the characters str.strip() and the pattern \s take for whitespace
Whitespace == {" ", "TAB"}

\* str.strip(): leading and trailing whitespace removed
RECURSIVE lstrip(_)
lstrip(d) == IF d # <<>> /\ Head(d) \in Whitespace THEN lstrip(Tail(d)) ELSE d

RECURSIVE rstrip(_)
rstrip(d) ==
    IF d # <<>> /\ d[Len(d)] \in Whitespace
    THEN rstrip(SubSeq(d, 1, Len(d) - 1)) ELSE d

strip(d) == rstrip(lstrip(d))

\* hash(): a function of the text that is not injective; here the number
\* of distinct characters, so that "ab" and "ba", and "a" and "b", share a
\* value as two texts can in Python
hash(d) == Cardinality({d[i] : i \in DOMAIN d})

\* dictionary helpers: key in d, d[key] = value
HasKey(d, key) == key \in DOMAIN d

SetItem(d, key, value) ==
    [k \in DOMAIN d \cup {key} |-> IF k = key THEN value ELSE d[k]]

\* the values the language model puts under a key
FieldValues(key) ==
    CASE key = "schedule" -> {"2024-01-15T09:00:00", "tomorrow", "null"}
      [] key = "task_type" ->
            {"research_task", "analysis_task", "invalid_task"}
      [] key = "params" -> {"{}", "{topic}"}
      [] key = "recurring" -> {"true", "false"}
      [] key = "cron_expression" -> {"0 8 * * 1"}
      [] OTHER -> {"a name"}

\* a key the dictionary does not have
Absent == "<absent>"

\* the dictionary that holds the keys of full whose value is not Absent
Dict(full) == [k \in {k \in DOMAIN full : full[k] # Absent} |-> full[k]]

\* the dictionaries json.loads can hand to _validate_parse_result
LlmResults ==
    {Dict([schedule |-> s, task_type |-> t, params |-> p, recurring |-> r,
           cron_expression |-> c, name |-> n]) :
        s \in FieldValues("schedule") \cup {Absent},
        t \in FieldValues("task_type") \cup {Absent},
        p \in FieldValues("params") \cup {Absent},
        r \in FieldValues("recurring") \cup {Absent},
        c \in FieldValues("cron_expression") \cup {Absent},
        n \in FieldValues("name") \cup {Absent}}

\* datetime.fromisoformat(schedule_str.replace("Z", "+00:00")) succeeds
IsIsoTimestamp(schedule) == schedule = "2024-01-15T09:00:00"

\* a validation that requires nothing
validate_parse_result_lenient(result) ==
    [raised |-> "", ret |-> Some(result)]

\* TaskParser._validate_parse_result
validate_parse_result(result) ==
    IF ~HasKey(result, "schedule") \/ ~HasKey(result, "task_type")
    THEN [raised |-> "TaskParseError", ret |-> None]
    ELSE IF ~IsIsoTimestamp(result["schedule"])
    THEN [raised |-> "TaskParseError", ret |-> None]
    ELSE LET r1 == IF result["task_type"] \notin KnownTaskTypes
                   THEN SetItem(result, "task_type", "research_task")
                   ELSE result
             r2 == IF ~HasKey(r1, "params")
                   THEN SetItem(r1, "params", "{}") ELSE r1
             r3 == IF ~HasKey(r2, "recurring")
                   THEN SetItem(r2, "recurring", "false") ELSE r2
         IN  [raised |-> "", ret |-> Some(r3)]

(* SpecValidate: _validate_parse_result applied to every dictionary;
   last_call keeps the argument and what came back. *)

InitValidate ==
    /\ tasks = <<>>
    /\ executions = <<>>
    /\ jobs = {}
    /\ started = TRUE
    /\ now = 0
    /\ runs = <<>>
    /\ last_call = NoCall
    /\ agent = NoAgent
    /\ parser = NoParser

ValidateCall ==
    /\ \E result \in LlmResults :
          LET res == validate_parse_result(result)
          IN  last_call' = [op |-> "_validate_parse_result",
                            result |-> result,
                            raised |-> res.raised,
                            ret |-> res.ret]
    /\ UNCHANGED <<tasks, executions, jobs, started, now, runs>>
    /\ UNCHANGED <<agent, parser>>

NextValidate == ValidateCall

SpecValidate == InitValidate /\ [][NextValidate]_vars

----------------------------------------------------------------------------
(* SpecPreprocess: TaskParser._preprocess_description applied to every text
   of up to MaxPreLen characters: a space, a tab, a letter and NUL, one of
   the control characters of the removed ranges. *)

PreprocessChars == {" ", "TAB", "a", "NUL"}

\* [\x00-\x08\x0b-\x0c\x0e-\x1f\x7f]
ControlChars == {"NUL"}

PreprocessInputs == UNION {[1..n -> PreprocessChars] : n \in 0..MaxPreLen}

\* re.sub(r"\s+", " ", text): each run of whitespace becomes one space
RECURSIVE collapse_whitespace(_)
collapse_whitespace(d) ==
    IF d = <<>> THEN <<>>
    ELSE IF Head(d) \in Whitespace
         THEN <<" ">> \o collapse_whitespace(lstrip(d))
         ELSE <<Head(d)>> \o collapse_whitespace(Tail(d))

\* re.sub(r"[\x00-\x08\x0b-\x0c\x0e-\x1f\x7f]", "", text)
RECURSIVE remove_control_chars(_)
remove_control_chars(d) ==
    IF d = <<>> THEN <<>>
    ELSE IF Head(d) \in ControlChars
         THEN remove_control_chars(Tail(d))
         ELSE <<Head(d)>> \o remove_control_chars(Tail(d))

\* lines 143-149, in the order of the code: strip, collapse, remove
preprocess_description(description) ==
    remove_control_chars(collapse_whitespace(strip(description)))

PreprocessCall ==
    /\ \E description \in PreprocessInputs :
          last_call' = [op |-> "_preprocess_description",
                        description |-> description,
                        ret |-> preprocess_description(description)]
    /\ UNCHANGED <<tasks, executions, jobs, started, now, runs>>
    /\ UNCHANGED <<agent, parser>>

NextPreprocess == PreprocessCall

SpecPreprocess == InitValidate /\ [][NextPreprocess]_vars

----------------------------------------------------------------------------
(* SpecParse: TaskParser.parse called again and again on one parser, with
   any description; the language model answers with a dictionary or
   fails. *)

\* what _parse_with_llm returns in this model: a complete dictionary, one
\* that leans on the defaults, one that validation rejects
ParseLlmResults ==
    {[schedule |-> "2024-01-15T09:00:00", task_type |-> "research_task",
      params |-> "{topic}", recurring |-> "false"],
     [schedule |-> "2024-01-15T09:00:00", task_type |-> "invalid_task"],
     [task_type |-> "research_task"]}

\* _parse_with_llm: the dictionary, or TaskParseError when the model call
\* or json.loads raises
LlmOutcomes ==
    {[raised |-> "", ret |-> Some(r)] : r \in ParseLlmResults}
    \cup {[raised |-> "TaskParseError", ret |-> None]}

InCache(cache, key) == \E e \in cache : e.key = key

CacheGet(cache, key) == (CHOOSE e \in cache : e.key = key).value

CachePut(cache, key, value) ==
    {e \in cache : e.key # key} \cup {[key |-> key, value |-> value]}

\* a parse that never looks into the cache
parse_uncached(cache, description, llm) ==
    IF description = <<>> \/ strip(description) = <<>>
    THEN [cache |-> cache, llm_called |-> FALSE, raised |-> "ValueError",
          ret |-> None]
    ELSE LET cache_key == hash(strip(description))
             validated == IF llm.raised # "" THEN llm
                          ELSE validate_parse_result(llm.ret[1])
         IN  IF validated.raised # ""
             THEN [cache |-> cache, llm_called |-> TRUE,
                   raised |-> "TaskParseError", ret |-> None]
             ELSE [cache |-> CachePut(cache, cache_key, validated.ret[1]),
                   llm_called |-> TRUE, raised |-> "",
                   ret |-> validated.ret]

\* a parse that treats a blank description like any other
parse_blank_as_text(cache, description, llm) ==
    LET cache_key == hash(strip(description))
        validated == IF llm.raised # "" THEN llm
                     ELSE validate_parse_result(llm.ret[1])
    IN  IF InCache(cache, cache_key)
        THEN [cache |-> cache, llm_called |-> FALSE, raised |-> "",
              ret |-> Some(CacheGet(cache, cache_key))]
        ELSE IF validated.raised # ""
             THEN [cache |-> cache, llm_called |-> TRUE,
                   raised |-> "TaskParseError", ret |-> None]
             ELSE [cache |-> CachePut(cache, cache_key, validated.ret[1]),
                   llm_called |-> TRUE, raised |-> "",
                   ret |-> validated.ret]

\* TaskParser.parse; llm is what the language model would answer if asked
parse(cache, description, llm) ==
    IF description = <<>> \/ strip(description) = <<>>
    THEN [cache |-> cache, llm_called |-> FALSE, raised |-> "ValueError",
          ret |-> None]
    ELSE LET cache_key == hash(strip(description))
             validated == IF llm.raised # "" THEN llm
                          ELSE validate_parse_result(llm.ret[1])
         IN  IF InCache(cache, cache_key)
             THEN [cache |-> cache, llm_called |-> FALSE, raised |-> "",
                   ret |-> Some(CacheGet(cache, cache_key))]
             ELSE IF validated.raised # ""
             THEN [cache |-> cache, llm_called |-> TRUE,
                   raised |-> "TaskParseError", ret |-> None]
             ELSE [cache |-> CachePut(cache, cache_key, validated.ret[1]),
                   llm_called |-> TRUE, raised |-> "",
                   ret |-> validated.ret]

InitParse ==
    /\ tasks = <<>>
    /\ executions = <<>>
    /\ jobs = {}
    /\ started = TRUE
    /\ now = 0
    /\ runs = <<>>
    /\ last_call = NoCall
    /\ agent = NoAgent
    /\ parser = NoParser

ParseCall ==
    /\ \E description \in Descriptions, llm \in LlmOutcomes :
          LET res == parse(parser.cache, description, llm)
          IN  parser' = [cache |-> res.cache,
                         last |-> [op |-> "parse",
                                   description |-> description,
                                   llm_called |-> res.llm_called,
                                   raised |-> res.raised,
                                   ret |-> res.ret]]
    /\ UNCHANGED <<tasks, executions, jobs, started, now, runs, last_call>>
    /\ UNCHANGED agent

NextParse == ParseCall

SpecParse == InitParse /\ [][NextParse]_vars

----------------------------------------------------------------------------
(* C1: after any sequence of add_task calls the scheduler holds at most one
   registration per task_id, and after a successful add_task that
   registration carries the trigger and the callback of that latest call
   (a cron trigger for a recurring call with a cron expression, a date
   trigger otherwise), whatever was registered before. *)

JobsOf(t) == {j \in jobs : j.id = job_id(t)}

C1_OneRegistrationPerTask ==
    /\ \A t \in SchedTaskIds : Cardinality(JobsOf(t)) <= 1
    /\ (last_call.op = "add_task" /\ last_call.raised = "") =>
        /\ JobsOf(last_call.task_id) # {}
        /\ \A j \in JobsOf(last_call.task_id) :
              /\ j.func = last_call.job_func
              /\ j.args = <<last_call.task_id>>
              /\ j.trigger.kind =
                    (IF last_call.is_recurring
                        /\ Truthy(last_call.cron_expression)
                     THEN "cron" ELSE "date")
              /\ j.trigger.kind = "date" =>
                    j.trigger.run_date = last_call.schedule
              /\ j.trigger.kind = "cron" =>
                    <<j.trigger.minute, j.trigger.hour, j.trigger.day,
                      j.trigger.month, j.trigger.day_of_week>>
                        = last_call.cron_expression[1]

\* an existing registration has just been replaced by a recurring one with
\* another callback, and another task is registered too
C1_Witness ==
    /\ last_call.op = "add_task"
    /\ last_call.raised = ""
    /\ last_call.replaced
    /\ last_call.is_recurring
    /\ last_call.job_func = "other_callback"
    /\ \E j \in JobsOf(last_call.task_id) : j.trigger.kind = "cron"
    /\ Cardinality(jobs) = 2

----------------------------------------------------------------------------
(* C2: when a run returns normally (the handler returned and every commit
   went through), its Execution is completed with result and duration set,
   and the return leaves the Task pending if it is recurring and completed
   if it is not. *)

C2_SuccessfulRun ==
    [][\A r \in DOMAIN runs :
          (runs[r].pc = "final_status" /\ runs'[r].outcome = "returned") =>
              LET t == runs[r].task_id
                  e == runs[r].exec_id
              IN  /\ executions'[e].task_id = t
                  /\ executions'[e].status = "completed"
                  /\ executions'[e].result # None
                  /\ executions'[e].duration_seconds # None
                  /\ tasks'[t].status =
                        (IF tasks[t].is_recurring THEN "pending"
                                                  ELSE "completed")]_vars

\* a run of a recurring task has returned: its Execution is completed and
\* the Task is pending again
C2_Witness ==
    \E r \in DOMAIN runs, e \in DOMAIN executions :
        /\ runs[r].outcome = "returned"
        /\ executions[e].status = "completed"
        /\ tasks[executions[e].task_id].is_recurring
        /\ tasks[executions[e].task_id].status = "pending"

----------------------------------------------------------------------------
(* C3: when a run fails after its Execution row was created and start_time
   taken, and the two commits of the except block go through, the run
   leaves the Execution failed with the error text and a duration, leaves
   the Task failed whether or not it is recurring, and raises
   TaskExecutionError. *)

C3_FailedRun ==
    [][\A r \in DOMAIN runs :
          LET t == runs[r].task_id
              e == runs[r].exec_id
          IN  /\ (/\ runs[r].pc = "except_execution"
                  /\ runs[r].start_time # None
                  /\ runs'[r].pc = "except_task") =>
                      /\ executions'[e].status = "failed"
                      /\ executions'[e].error_message = Some(runs[r].error)
                      /\ executions'[e].duration_seconds # None
              /\ (/\ runs[r].pc = "except_task"
                  /\ runs[r].start_time # None
                  /\ runs'[r].pc = "done"
                  /\ runs'[r].outcome # "SQLAlchemyError") =>
                      /\ runs'[r].outcome = "TaskExecutionError"
                      /\ executions'[e].status = "failed"
                      /\ executions'[e].error_message # None
                      /\ executions'[e].duration_seconds # None
                      /\ tasks'[t].status = "failed"]_vars

\* the handler of a recurring task raised: the run has left with
\* TaskExecutionError, its Execution and the Task are failed
C3_Witness ==
    \E r \in DOMAIN runs, e \in DOMAIN executions :
        /\ runs[r].outcome = "TaskExecutionError"
        /\ executions[e].status = "failed"
        /\ executions[e].error_message = Some("handler_error")
        /\ tasks[executions[e].task_id].is_recurring
        /\ tasks[executions[e].task_id].status = "failed"

----------------------------------------------------------------------------
(* C4: a run for a task id that has no row leaves execute_task with
   TaskExecutionError, and on the way creates no Execution row and changes
   no Task row. *)

C4_MissingTask ==
    [][\A r \in DOMAIN runs :
          (/\ InFlight(r)
           /\ runs[r].task_id \notin DOMAIN tasks
           /\ runs'[r] # runs[r]) =>
              /\ executions' = executions
              /\ tasks' = tasks
              /\ runs'[r].pc = "done" =>
                    runs'[r].outcome = "TaskExecutionError"]_vars

----------------------------------------------------------------------------
(* C5: every run of an existing task that does not return leaves with
   TaskExecutionError, and the store then holds a failed Execution row of
   that run. *)

C5_TypedFailure ==
    [][\A r \in DOMAIN runs :
          (/\ runs[r].task_id \in DOMAIN tasks
           /\ runs'[r].pc = "done"
           /\ runs[r].pc # "done"
           /\ runs'[r].outcome # "returned") =>
              /\ runs'[r].outcome = "TaskExecutionError"
              /\ runs[r].exec_id \in DOMAIN executions'
              /\ executions'[runs[r].exec_id].status = "failed"]_vars

----------------------------------------------------------------------------
(* C6: an Execution row is created running, changes status only from
   running to completed or failed, and is never deleted. *)

C6_ExecutionStatusOnce ==
    [][/\ Len(executions') >= Len(executions)
       /\ \A e \in DOMAIN executions' \ DOMAIN executions :
              executions'[e].status = "running"
       /\ \A e \in DOMAIN executions \cap DOMAIN executions' :
              executions'[e].status # executions[e].status =>
                  /\ executions[e].status = "running"
                  /\ executions'[e].status \in {"completed", "failed"}]_vars

----------------------------------------------------------------------------
(* C7: an Execution has a result exactly when it is completed and an
   error message exactly when it is failed. *)

C7_ResultAndErrorMatchStatus ==
    \A e \in DOMAIN executions :
        /\ executions[e].result # None <=> executions[e].status = "completed"
        /\ executions[e].error_message # None <=>
              executions[e].status = "failed"

----------------------------------------------------------------------------
(* C8: a Task's status is always one of the five documented values and
   every change of it is one of the six listed transitions. *)

C8_TaskStatusMachine ==
    [][\A t \in DOMAIN tasks :
          /\ tasks'[t].status \in
                {"pending", "running", "completed", "failed", "paused"}
          /\ tasks'[t].status # tasks[t].status =>
                <<tasks[t].status, tasks'[t].status>> \in
                    {<<"pending", "running">>, <<"running", "completed">>,
                     <<"running", "pending">>, <<"running", "failed">>,
                     <<"pending", "paused">>, <<"paused", "pending">>}
      ]_vars

----------------------------------------------------------------------------
(* C9: while a recurring task with a cron registration is failed, no firing
   of the scheduler starts a run of it, and no run the scheduler started
   moves its status away from failed. *)

C9_FailedStaysFailed ==
    [][\A t \in DOMAIN tasks, r \in DOMAIN runs :
          (/\ tasks[t].is_recurring
           /\ Truthy(tasks[t].cron_expression)
           /\ tasks[t].status = "failed") =>
              /\ ~(/\ runs[r].pc = "idle"
                   /\ runs'[r].pc = "load"
                   /\ runs'[r].via = "scheduler"
                   /\ runs'[r].task_id = t)
              /\ (/\ runs[r].pc = "load"
                  /\ runs[r].via = "scheduler"
                  /\ runs[r].task_id = t
                  /\ runs'[r] # runs[r]) =>
                      tasks'[t].status = "failed"]_vars

----------------------------------------------------------------------------
(* C10: no task whose deleted_time is set has a scheduler registration,
   across deletions, restarts and later updates. *)

----------------------------------------------------------------------------
(* C11: after load_tasks_from_db the registered tasks are exactly those
   that are pending, not deleted, and recurring or one-shot with a fire
   time not yet elapsed at the time of the load; the returned count is the
   number of registrations. *)

C11_LoadRegistersExactlyEligible ==
    last_call.op = "load_tasks_from_db" =>
        /\ \A t \in DOMAIN tasks :
              JobsOf(t) # {} <=>
                  /\ tasks[t].status = "pending"
                  /\ tasks[t].deleted_time = None
                  /\ tasks[t].is_recurring \/ tasks[t].schedule >= last_call.at
        /\ last_call.count = Cardinality(jobs)

----------------------------------------------------------------------------
(* C12: restart round trip.  Every cron registration the process held
   before it died, of a task that is still pending and not deleted, is
   there again after load_tasks_from_db on the fresh scheduler: same job
   id, same trigger, same callback and the same task_id argument. *)

C12_RestartRoundTrip ==
    last_call.op = "load_tasks_from_db" =>
        \A j \in last_call.discarded :
            (/\ j.trigger.kind = "cron"
             /\ tasks[j.args[1]].status = "pending"
             /\ tasks[j.args[1]].deleted_time = None) =>
                \E k \in jobs : /\ k.id = j.id
                                /\ k.trigger = j.trigger
                                /\ k.func = j.func
                                /\ k.args = j.args

\* a restart has discarded and reloaded the cron registration of a pending
\* task, next to a task the load leaves out
C12_Witness ==
    /\ last_call.op = "load_tasks_from_db"
    /\ \E j \in last_call.discarded :
        /\ j.trigger.kind = "cron"
        /\ tasks[j.args[1]].status = "pending"
        /\ tasks[j.args[1]].deleted_time = None
        /\ j \in jobs
    /\ Cardinality(jobs) < Len(tasks)

----------------------------------------------------------------------------
(* C13: while a pause request for a task is in force (update_task with
   status=paused, no later update of the task), the scheduler starts no run
   of that task. *)

C13_NoFiringWhilePaused ==
    [][\A r \in DOMAIN runs :
          (/\ runs[r].pc = "idle"
           /\ runs'[r].pc = "load"
           /\ runs'[r].via = "scheduler"
           /\ tasks' = tasks) =>
              ~(/\ last_call.op = "update_task"
                /\ last_call.status = "paused"
                /\ last_call.task_id = runs'[r].task_id)]_vars

----------------------------------------------------------------------------
(* C14: when update_task with status=pending resumes a paused, non-deleted
   recurring task with a valid cron expression, the task has an active
   (not paused) registration afterwards and its schedule and cron
   expression are unchanged. *)

C14_ResumeRearms ==
    [][\A t \in DOMAIN tasks :
          (/\ tasks[t].status = "paused"
           /\ tasks[t].deleted_time = None
           /\ tasks[t].is_recurring
           /\ tasks[t].cron_expression = Some(CronEveryMinute)
           /\ tasks'[t].status = "pending") =>
              /\ \E j \in jobs' : j.id = job_id(t) /\ ~j.paused
              /\ tasks'[t].schedule = tasks[t].schedule
              /\ tasks'[t].cron_expression = tasks[t].cron_expression]_vars

----------------------------------------------------------------------------
(* C15: an add_task call for a recurring task with a syntactically invalid
   cron expression raises SchedulerError and leaves the set of
   registrations as it was, an existing registration of that task_id
   included. *)

----------------------------------------------------------------------------
(* C16: remove_task, pause_task and resume_task return False and change
   nothing for a task_id without registration; for a registered task_id
   they return True and remove the registration, mark it paused while
   keeping it, and mark it active again; no other registration changes. *)

C16_RemovePauseResume ==
    [][(last_call'.op \in {"remove_task", "pause_task", "resume_task"}) =>
          LET t == last_call'.task_id
              others == jobs \ JobsOf(t)
          IN  IF JobsOf(t) = {}
              THEN last_call'.ret = FALSE /\ jobs' = jobs
              ELSE /\ last_call'.ret = TRUE
                   /\ last_call'.op = "remove_task" => jobs' = others
                   /\ last_call'.op = "pause_task" =>
                         jobs' = others \cup
                                 {[j EXCEPT !.paused = TRUE] : j \in JobsOf(t)}
                   /\ last_call'.op = "resume_task" =>
                         jobs' = others \cup
                                 {[j EXCEPT !.paused = FALSE] : j \in JobsOf(t)}
      ]_vars

\* pause_task has just suspended the registration of one task while
\* another task stays registered and active
C16_Witness ==
    /\ last_call.op = "pause_task"
    /\ last_call.ret = TRUE
    /\ \E j \in JobsOf(last_call.task_id) : j.paused
    /\ \E j \in jobs \ JobsOf(last_call.task_id) : ~j.paused

----------------------------------------------------------------------------
(* C17: when a run the scheduler started lets an exception out of its
   callback, the scheduler stays started and keeps every registration, the
   failing job's included; and after a callback has raised, a due job whose
   firing conditions hold can still be fired. *)

DueCronJob ==
    \E j \in jobs :
        /\ ~j.paused
        /\ j.trigger.kind = "cron"
        /\ ~\E r \in DOMAIN runs : /\ InFlight(r)
                                   /\ runs[r].task_id = j.args[1]

----------------------------------------------------------------------------
(* C18: an orderly shutdown lets every firing that is in flight return
   before it completes, so that none of their Executions is left in
   status running. *)

C18_ShutdownWaitsForFirings ==
    [][Shutdown =>
          \A r \in DOMAIN runs :
              (InFlight(r) /\ runs[r].via = "scheduler") =>
                  /\ runs'[r].outcome # "CancelledError"
                  /\ runs[r].exec_id # 0 =>
                        executions'[runs[r].exec_id].status # "running"]_vars

----------------------------------------------------------------------------
(* C19: when the parser fails on the description given to create_task,
   the caller gets the parser's failure, no Task row is created and no
   scheduler registration is added. *)

C19_ParseFailureCreatesNothing ==
    [][(last_call'.op = "create_task" /\ last_call'.outcome.raised # "") =>
          /\ last_call'.raised = last_call'.outcome.raised
          /\ last_call'.ret = None
          /\ tasks' = tasks
          /\ jobs' = jobs]_vars

C19_Witness ==
    /\ last_call.op = "create_task"
    /\ last_call.outcome.raised = "TaskParseError"
    /\ last_call.raised = "TaskParseError"
    /\ Len(tasks) > 0
    /\ jobs # {}

----------------------------------------------------------------------------
(* C20: every Task row that create_task persists has a cron_expression
   if and only if it is recurring. *)

C20_CronIffRecurring ==
    \A t \in DOMAIN tasks :
        (tasks[t].cron_expression # None) <=> tasks[t].is_recurring

----------------------------------------------------------------------------
(* C21: the agent graph is the machine deciding / acting / done.  After a
   model response the next node is tools exactly when the response asks for
   a tool and END exactly when it asks for none; after the tools node the
   next node is always agent; END is entered from the agent node only; and
   the final_response that execute returns is the content of the last model
   response, which asks for no tool. *)

LastMessage(a) == a.messages[Len(a.messages)]

C21_AgentGraphRouting ==
    /\ [][/\ (agent.node = "agent" /\ agent'.step = agent.step + 1) =>
                /\ LastMessage(agent').type = "ai"
                /\ agent'.node = "tools" <=>
                      LastMessage(agent').tool_calls # <<>>
                /\ agent'.node = "END" <=>
                      LastMessage(agent').tool_calls = <<>>
          /\ (agent.node = "tools" /\ agent'.step = agent.step + 1) =>
                agent'.node = "agent"
          /\ (agent'.node = "END" /\ agent.node # "END") =>
                agent.node = "agent"]_vars
    /\ [](agent.node = "END" =>
             /\ LastMessage(agent).type = "ai"
             /\ LastMessage(agent).tool_calls = <<>>)
    /\ []((agent.result # None /\ agent.result[1].success) =>
             /\ agent.node = "END"
             /\ agent.result[1].final_response = LastMessage(agent).content)

C21_Witness ==
    /\ agent.result # None
    /\ agent.result[1].success
    /\ \E i \in DOMAIN agent.messages : agent.messages[i].type = "tool"

----------------------------------------------------------------------------
(* C22: TaskAgent.execute never raises.  An exception that leaves a model
   call or the tool dispatch ends the loop at once: no message is appended
   and no node runs after it, and execute returns success = false with an
   error text that contains the exception's message.  Otherwise execute
   returns success = true with a final_response. *)

C22_ExecuteNeverRaises ==
    /\ [][/\ (agent.raised = None /\ agent'.raised # None) =>
                /\ agent'.messages = agent.messages
                /\ agent'.step = agent.step
          /\ agent.raised # None =>
                agent' = [agent EXCEPT !.result = agent'.result]]_vars
    /\ [](agent.result # None =>
             IF agent.raised # None
             THEN /\ ~agent.result[1].success
                  /\ \E i \in DOMAIN agent.result[1].error :
                        agent.result[1].error[i] = agent.raised[1]
             ELSE /\ agent.result[1].success
                  /\ agent.result[1].final_response = "answer")

C22_Witness ==
    /\ agent.result # None
    /\ ~agent.result[1].success
    /\ agent.raised \in {Some("search failed"), Some("model unavailable")}
    /\ Len(agent.messages) > 2

----------------------------------------------------------------------------
(* C23: when the model asks for a tool whose name is not in the tool set
   of the agent, the loop ends at once: the dispatch fails, no further
   model call is made, and execute returns success = false with an error
   that mentions the name. *)

ToolsNodeDue ==
    Looping /\ agent.node = "tools" /\ agent.step < recursion_limit

C23_UnknownToolEndsLoop ==
    [][(/\ ToolsNodeDue
        /\ \E i \in DOMAIN LastMessage(agent).tool_calls :
              LastMessage(agent).tool_calls[i] \notin agent.tools) =>
          /\ agent'.raised # None
          /\ agent'.node # "agent"]_vars

----------------------------------------------------------------------------
(* C24: for every tool of get_all_tools, an error of the capability behind
   it does not leave the tool and does not end the loop: the tool returns
   a text, that text is appended to the history, and the model is asked
   again. *)

C24_ToolErrorsAreText ==
    [][(/\ ToolsNodeDue
        /\ \A i \in DOMAIN LastMessage(agent).tool_calls :
              LastMessage(agent).tool_calls[i] \in get_all_tools) =>
          /\ agent'.raised = None
          /\ agent'.node = "agent"
          /\ Len(agent'.messages) =
                Len(agent.messages) + Len(LastMessage(agent).tool_calls)
          /\ \A i \in DOMAIN agent'.messages \ DOMAIN agent.messages :
                /\ agent'.messages[i].type = "tool"
                /\ agent'.messages[i].status = "success"]_vars

----------------------------------------------------------------------------
(* C25: delete_task of an existing task that is not deleted sets its
   deleted_time, removes its scheduler registration and leaves every other
   field of the task, its status in particular, as it was. *)

C25_DeleteLeavesOtherFields ==
    [][\A t \in DOMAIN tasks :
          (tasks[t].deleted_time = None /\ tasks'[t].deleted_time # None) =>
              /\ get_job(jobs', job_id(t)) = None
              /\ tasks'[t] =
                    [tasks[t] EXCEPT !.deleted_time = tasks'[t].deleted_time]]_vars

----------------------------------------------------------------------------
(* C26: a run of a task whose task_type is none of the known types is not
   failed because of its type: the engine falls back to the default
   handling and the run goes on. *)

C26_UnknownTypeFallsBack ==
    [][\A r \in DOMAIN runs :
          (/\ runs[r].pc = "handler"
           /\ tasks[runs[r].task_id].task_type \notin KnownTaskTypes
           /\ runs'[r] # runs[r]) =>
              runs'[r].error # "unknown_task_type"]_vars

----------------------------------------------------------------------------
(* C27: TaskParser.parse of an empty or whitespace-only description raises
   ValueError (not TaskParseError), does not call the language model and
   leaves the cache as it was. *)

Blank(description) == strip(description) = <<>>

C27_BlankDescriptionRejected ==
    [][(parser'.last.op = "parse" /\ Blank(parser'.last.description)) =>
          /\ parser'.last.raised = "ValueError"
          /\ parser'.last.ret = None
          /\ ~parser'.last.llm_called
          /\ parser'.cache = parser.cache]_vars

C27_Witness ==
    /\ parser.last.op = "parse"
    /\ parser.last.description = <<" ", " ">>
    /\ parser.last.raised = "ValueError"
    /\ parser.cache # {}

----------------------------------------------------------------------------
(* C28: a second parse of a description on the same parser returns a
   result equal to the first and does not call the language model; a parse
   that fails stores nothing, so a later parse of that description calls
   the model again.  Stated as: what the cache holds is never changed or
   dropped; a parse succeeds without the model exactly when its key is
   cached, and returns what the cache holds under its key; a failing parse
   leaves the cache alone; and of two parses in a row of one description,
   the second returns the first's result without the model when the first
   succeeded, and calls the model when the first failed on it. *)

KeyOf(description) == hash(strip(description))

C28_ParseCaches ==
    [][parser'.last.op = "parse" =>
          /\ parser.cache \subseteq parser'.cache
          /\ parser'.last.raised # "" => parser'.cache = parser.cache
          /\ ~Blank(parser'.last.description) =>
                /\ parser'.last.llm_called <=>
                      ~InCache(parser.cache, KeyOf(parser'.last.description))
                /\ parser'.last.raised = "" =>
                      /\ InCache(parser'.cache,
                                 KeyOf(parser'.last.description))
                      /\ parser'.last.ret =
                            Some(CacheGet(parser'.cache,
                                          KeyOf(parser'.last.description)))
          /\ (/\ parser.last.op = "parse"
              /\ parser.last.description = parser'.last.description
              /\ parser.last.raised = "") =>
                /\ parser'.last.raised = ""
                /\ parser'.last.ret = parser.last.ret
                /\ ~parser'.last.llm_called
          /\ (/\ parser.last.op = "parse"
              /\ parser.last.description = parser'.last.description
              /\ parser.last.raised = "TaskParseError") =>
                parser'.last.llm_called]_vars

C28_Witness ==
    /\ parser.last.op = "parse"
    /\ ~Blank(parser.last.description)
    /\ ~parser.last.llm_called
    /\ parser.last.raised = ""
    /\ Cardinality(parser.cache) > 1

----------------------------------------------------------------------------
(* C29: _validate_parse_result raises TaskParseError when schedule or
   task_type is missing or schedule is not an ISO timestamp; otherwise it
   returns the dictionary with task_type replaced by research_task when it
   is none of the known types, params defaulted to {} and recurring to
   false when absent, and every other key as it was. *)

C29_ValidateParseResult ==
    last_call.op = "_validate_parse_result" =>
        LET d == last_call.result
            rejected == \/ "schedule" \notin DOMAIN d
                        \/ "task_type" \notin DOMAIN d
                        \/ ~IsIsoTimestamp(d["schedule"])
        IN  IF rejected
            THEN last_call.raised = "TaskParseError" /\ last_call.ret = None
            ELSE /\ last_call.raised = ""
                 /\ last_call.ret # None
                 /\ LET r == last_call.ret[1]
                    IN  /\ DOMAIN r = DOMAIN d \cup {"params", "recurring"}
                        /\ r["task_type"] =
                              IF d["task_type"] \in KnownTaskTypes
                              THEN d["task_type"] ELSE "research_task"
                        /\ r["params"] =
                              IF "params" \in DOMAIN d
                              THEN d["params"] ELSE "{}"
                        /\ r["recurring"] =
                              IF "recurring" \in DOMAIN d
                              THEN d["recurring"] ELSE "false"
                        /\ \A k \in DOMAIN d \ {"task_type"} : r[k] = d[k]

C29_Witness ==
    /\ last_call.op = "_validate_parse_result"
    /\ last_call.raised = ""
    /\ last_call.result["task_type"] = "invalid_task"
    /\ DOMAIN last_call.result = {"schedule", "task_type", "name"}
    /\ last_call.ret[1]["task_type"] = "research_task"

----------------------------------------------------------------------------
\* the Execution rows of one task
ExecutionRowsOf(t) == {i \in DOMAIN executions : executions[i].task_id = t}

----------------------------------------------------------------------------
(* C31: a run that is cancelled while in flight still has its Execution
   marked failed and stored, so that no Execution stays in status running
   unless the process crashed. *)

C31_CancelledRunIsMarkedFailed ==
    [][\A r \in DOMAIN runs :
          (/\ InFlight(r)
           /\ runs[r].exec_id # 0
           /\ runs'[r].pc = "done"
           /\ runs'[r].outcome = "CancelledError")
             => executions'[runs[r].exec_id].status = "failed"]_vars

----------------------------------------------------------------------------
(* C32: a run of task t writes only the status of the Task row of t and the
   Execution row it created itself, with the values it would write if it
   ran alone; it changes no other Task row, no other Execution row and no
   registration of the scheduler, whatever other runs are in flight. *)

\* run r takes a step of execute_task
RunStep(r) == InFlight(r) /\ runs'[r] # runs[r]

C32_RunWritesOwnRowsOnly ==
    [][\A r \in DOMAIN runs :
          RunStep(r) =>
            LET t == runs[r].task_id
                e == IF runs[r].exec_id # 0 THEN runs[r].exec_id
                     ELSE Len(executions) + 1
            IN
            /\ jobs' = jobs
            /\ DOMAIN tasks' = DOMAIN tasks
            /\ \A u \in DOMAIN tasks : u # t => tasks'[u] = tasks[u]
            /\ t \in DOMAIN tasks =>
                  /\ [tasks'[t] EXCEPT !.status = tasks[t].status] = tasks[t]
                  /\ tasks'[t].status \in
                        {tasks[t].status, "running", "failed",
                         final_status(tasks[t])}
            /\ Len(executions') \in {Len(executions), Len(executions) + 1}
            /\ \A i \in DOMAIN executions : i # e => executions'[i] = executions[i]
            /\ Len(executions') = Len(executions) + 1 =>
                  /\ runs[r].exec_id = 0
                  /\ runs'[r].exec_id = e
                  /\ executions'[e] = TaskExecution(t)
            /\ \A i \in DOMAIN executions' :
                  (i \notin DOMAIN executions \/ executions'[i] # executions[i])
                     => executions'[i].task_id = t]_vars

\* runs of two different tasks are in flight, each with its own Execution,
\* and one of them has stored its result while the other is still running
C32_Witness ==
    \E r, q \in DOMAIN runs :
        /\ InFlight(r) /\ InFlight(q)
        /\ runs[r].task_id # runs[q].task_id
        /\ runs[r].exec_id # 0 /\ runs[q].exec_id # 0
        /\ executions[runs[r].exec_id].status = "completed"
        /\ executions[runs[q].exec_id].status = "running"

----------------------------------------------------------------------------
(* C33: runs of one task are not mutually excluded.  While a run of a task
   is in flight a manual execute request for the same task is accepted and
   starts a second run with its own Execution row, so that two Executions
   of the task can be running at once; each run writes the Task's status
   when it finishes, whatever the other run wrote, so the status that stays
   is the one of the run that finishes last. *)

C33_SameTaskRunsNotExcluded ==
    /\ []((/\ started
           /\ HasFreeRun
           /\ \E r \in DOMAIN runs :
                 /\ InFlight(r)
                 /\ get_task(tasks, runs[r].task_id) # None)
             => ENABLED ManualExecute)
    /\ [][\A r \in DOMAIN runs :
             /\ (runs[r].pc = "create_execution" /\ runs'[r].pc = "handler")
                  => /\ Len(executions') = Len(executions) + 1
                     /\ executions'[Len(executions')].status = "running"
             /\ (runs[r].pc = "final_status" /\ runs'[r].outcome = "returned")
                  => tasks'[runs[r].task_id].status =
                        final_status(tasks[runs[r].task_id])
             /\ (/\ runs[r].pc = "except_task"
                 /\ runs[r].task = "row"
                 /\ runs'[r].outcome = "TaskExecutionError")
                  => tasks'[runs[r].task_id].status = "failed"]_vars

\* a manual run and another run of the same task both hold an Execution in
\* status running
C33_Witness ==
    \E r, q \in DOMAIN runs :
        /\ r # q
        /\ InFlight(r) /\ InFlight(q)
        /\ runs[r].via = "manual"
        /\ runs[r].task_id = runs[q].task_id
        /\ runs[r].exec_id # 0 /\ runs[q].exec_id # 0
        /\ runs[r].exec_id # runs[q].exec_id
        /\ executions[runs[r].exec_id].status = "running"
        /\ executions[runs[q].exec_id].status = "running"

----------------------------------------------------------------------------
(* C34: TaskAgent.execute terminates whatever the model answers.  The graph
   never runs more nodes than its step limit; a model that keeps asking for
   tools is stopped by that limit, and execute then returns success =
   false. *)

C34_ExecuteTerminates ==
    /\ <>(agent.result # None)
    /\ [](agent.step <= recursion_limit)
    /\ []((/\ agent.result # None
           /\ \/ LastMessage(agent).type # "ai"
              \/ LastMessage(agent).tool_calls # <<>>)
             => ~agent.result[1].success)

\* the model asked for tools in every answer, the limit stopped the graph
\* and execute has returned
C34_Witness ==
    /\ agent.result # None
    /\ ~agent.result[1].success
    /\ agent.raised = Some("recursion limit reached")
    /\ agent.step = recursion_limit
    /\ \A i \in DOMAIN agent.messages :
          agent.messages[i].type = "ai" => agent.messages[i].tool_calls # <<>>

----------------------------------------------------------------------------
(* C35: whatever the input, the text _preprocess_description returns has no
   whitespace at either end, no two adjacent whitespace characters and no
   control character of the removed ranges, so that a second application
   returns it unchanged. *)

C35_PreprocessNormalizes ==
    last_call.op = "_preprocess_description" =>
        LET ret == last_call.ret IN
        /\ strip(ret) = ret
        /\ \A i \in 1..(Len(ret) - 1) :
              ~(ret[i] \in Whitespace /\ ret[i + 1] \in Whitespace)
        /\ \A i \in DOMAIN ret : ret[i] \notin ControlChars
        /\ preprocess_description(ret) = ret

----------------------------------------------------------------------------
(* C36: the parse cache of a TaskParser never holds more results than its
   stated maximum (1000 in the code's comment, max_cache_entries here),
   whatever descriptions are parsed. *)

C36_CacheBounded == Cardinality(parser.cache) <= max_cache_entries

----------------------------------------------------------------------------
(* C37: create_task is all-or-nothing.  When it returns, the new Task row
   exists with status pending and is registered in the scheduler; when it
   raises, whatever the reason, the store holds no new row and the
   scheduler no new registration. *)

C37_CreateAllOrNothing ==
    [][last_call'.op = "create_task" =>
          IF last_call'.raised = ""
          THEN /\ tasks' = Append(tasks, tasks'[Len(tasks')])
               /\ last_call'.ret = Some(Len(tasks'))
               /\ tasks'[Len(tasks')].status = "pending"
               /\ \E j \in jobs' : j.id = job_id(Len(tasks'))
          ELSE /\ tasks' = tasks
               /\ jobs' = jobs]_vars

----------------------------------------------------------------------------
(* C38: while the process is up, every non-deleted task in status pending
   that is recurring, or one-shot with its fire time still ahead, has a
   registration in the scheduler that is not paused. *)

C38_PendingTasksAreArmed ==
    started =>
        \A t \in DOMAIN tasks :
            (/\ tasks[t].deleted_time = None
             /\ tasks[t].status = "pending"
             /\ tasks[t].is_recurring \/ tasks[t].schedule > now)
                => \E j \in jobs : j.id = job_id(t) /\ ~j.paused

----------------------------------------------------------------------------
(* C39: the scheduler never starts a run of a one-shot task whose status is
   completed: a one-shot task completed by a manual execute before its fire
   time is not run again when the fire time comes. *)

C39_CompletedOneShotNotFired ==
    [][\A r \in DOMAIN runs :
          (/\ runs[r].pc = "idle"
           /\ runs'[r].pc = "load"
           /\ runs'[r].via = "scheduler"
           /\ ~tasks[runs'[r].task_id].is_recurring)
             => tasks[runs'[r].task_id].status # "completed"]_vars

----------------------------------------------------------------------------
(* C40: in load_tasks_from_db a task whose registration fails is skipped
   and the load goes on: every other eligible task is registered, and the
   count returned is the number of tasks registered. *)

\* the load selects task t: pending, not deleted, not an elapsed one-shot
Eligible(t, at) ==
    /\ tasks[t].status = "pending"
    /\ tasks[t].deleted_time = None
    /\ tasks[t].is_recurring \/ tasks[t].schedule >= at

\* add_task accepts the row of task t
Registrable(t) ==
    add_task({}, t, tasks[t].schedule, tasks[t].cron_expression,
             tasks[t].is_recurring, "execute_task_wrapper").raised = ""

C40_LoadSkipsFailedRegistration ==
    last_call.op = "load_tasks_from_db" =>
        /\ \A t \in DOMAIN tasks :
              /\ (Eligible(t, last_call.at) /\ Registrable(t)) => JobsOf(t) # {}
              /\ ~Registrable(t) => JobsOf(t) = {}
        /\ last_call.count =
              Cardinality({t \in DOMAIN tasks :
                             Eligible(t, last_call.at) /\ Registrable(t)})
        /\ last_call.count = Cardinality(jobs)

\* the load met a task it could not register and registered the eligible
\* task that came after it
C40_Witness ==
    /\ last_call.op = "load_tasks_from_db"
    /\ \E t, u \in DOMAIN tasks :
          /\ t < u
          /\ Eligible(t, last_call.at) /\ ~Registrable(t)
          /\ Eligible(u, last_call.at) /\ JobsOf(u) # {}
    /\ last_call.count = 1

====
